---------------------------- MODULE Spec2Model ----------------------------
(***************************************************************************)
(* A model of vladium/static_hash: the table-driven CRC engine             *)
(* (vr/crc32.cpp), the SSE4.2 word folds (vr/intrinsics.h), the string     *)
(* hashers (vr/hashing.h), the equivalence test (test.cpp) and the         *)
(* dispatching main (main.cpp).                                            *)
(*                                                                         *)
(* A 32-bit (or 64-bit) unsigned value is the set of the positions of its  *)
(* one bits, bit 0 the least significant: 1 is {0}, 0xFF is 0..7, XOR is   *)
(* the symmetric difference and >> drops the low positions.  A byte held   *)
(* in memory is a number 0..255.                                           *)
(***************************************************************************)
EXTENDS Integers, Sequences, FiniteSets, TLC

VARIABLES
    g_crctable,   \* impl::g_crctable, the 256-entry table the build contains
    mem,          \* the caller's memory, a sequence of bytes (index 0 is mem[1])
    pc,           \* position of the running call
    args,         \* the running call's arguments [off, len, seed]
    buf,          \* the engine's moving pointer, an index into mem (0-based)
    len,          \* the engine's remaining-length counter (signed)
    crc,          \* the engine's checksum register
    reads,        \* indices (relative to the call's buffer) read so far, in order
    chunks,       \* widths in bytes of the words the hardware engine folded so far
    result,       \* the value the call returned (cleared when a call is entered)
    seen,         \* an earlier reference call a caller remembers: bytes, seed, value
    chain,        \* where a caller who hashes a buffer piece by piece began: off, seed
    t_len,        \* test_crc32: len
    t_r,          \* test_crc32: r
    h_ref,        \* test_crc32: h_ref
    h_fast,       \* test_crc32: h_fast
    verdict,      \* test_crc32: the value returned, "none" until it returns
    tested,       \* test_crc32: the (len, r) trials compared so far
    mismatches,   \* test_crc32: how many compared trials disagreed
    ac,           \* main: ac
    av,           \* main: av [1], a 0-terminated string
    h,            \* main: h
    branch,       \* main: the case label the switch took, "none" for none
    out,          \* main: what was written to std::cout and std::cerr, in order
    rc            \* main: the value returned, -1 until it returns

callVars == <<pc, args, buf, len, crc, reads, chunks, result>>

callVars_but_pc == <<args, buf, len, crc, reads, chunks, result>>

seqVars == <<seen, chain>>

testVars == <<t_len, t_r, h_ref, h_fast, verdict, tested, mismatches>>

mainVars == <<ac, av, h, branch, out, rc>>

vars == <<g_crctable, mem, callVars, seqVars, testVars, mainVars>>

---------------------------------------------------------------------------
(* Bounds of the model *)

\* longest buffer handed to an engine
MaxLen == 17
\* largest offset of a buffer inside the caller's memory
MaxOff == 1
\* reads past the end of the memory that a run may still take
MaxOOB == 2

---------------------------------------------------------------------------
(* Unsigned words as sets of bit positions *)

XOR(a, b) == {i \in 0..63 : (i \in a) # (i \in b)}

SHR(a, k) == {i - k : i \in {j \in a : j >= k}}

AND_0xFF(a) == a \cap (0..7)

\* the bits of a byte 0..255
ByteBits(b) == {i \in 0..7 : (b \div (2^i)) % 2 = 1}

RECURSIVE ByteVal(_)
\* the number 0..255 whose bits are s
ByteVal(s) == IF s = {} THEN 0
              ELSE LET i == CHOOSE j \in s : TRUE IN 2^i + ByteVal(s \ {i})

RECURSIVE HexBits(_, _)
\* the word written as hexadecimal digits ds, most significant first
HexBits(ds, at) ==
    IF ds = <<>> THEN {}
    ELSE {at + i : i \in {j \in 0..3 : (ds[Len(ds)] \div (2^j)) % 2 = 1}}
         \cup HexBits(SubSeq(ds, 1, Len(ds) - 1), at + 4)

\* 0xEDB88320, the reflected IEEE 802.3 polynomial
PolyIEEE == HexBits(<<14, 13, 11, 8, 8, 3, 2, 0>>, 0)

\* 0x82F63B78, the reflected Castagnoli polynomial 0x11EDC6F41 of SSE4.2's CRC32
PolyCastagnoli == HexBits(<<8, 2, 15, 6, 3, 11, 7, 8>>, 0)

---------------------------------------------------------------------------
(* The polynomial table.  impl::g_crctable is defined in vr/crc32.h; it is    *)
(* built here the way the specification describes it.  The specification      *)
(* names the IEEE 802.3 polynomial; the instruction behind vr/intrinsics.h     *)
(* divides by the Castagnoli polynomial.  The table is therefore a variable    *)
(* that a build fixes to one of the two tables and that nothing assigns.       *)

\* one step of the reflected division
DivStep(c, poly) == IF 0 \in c THEN XOR(SHR(c, 1), poly) ELSE SHR(c, 1)

RECURSIVE Div(_, _, _)
Div(c, poly, n) == IF n = 0 THEN c ELSE Div(DivStep(c, poly), poly, n - 1)

\* table[i] is the 8-step reflected division of byte i
build_table(poly) == [i \in 0..255 |-> Div(ByteBits(i), poly, 8)]

TableIEEE == build_table(PolyIEEE)

TableCastagnoli == build_table(PolyCastagnoli)

---------------------------------------------------------------------------
(* The native checksum instruction *)

\* one bit of the operand (bit i of x) shifted into the register
HwBit(c, x, i) ==
    IF (0 \in c) # (i \in x) THEN XOR(SHR(c, 1), PolyCastagnoli) ELSE SHR(c, 1)

RECURSIVE HwFold(_, _, _, _)
\* CRC32 r32, r/m: bits i..n-1 of x folded into crc, least significant first,
\* eight bits per level (n - i is a multiple of 8).  A zero register stays zero
\* when only zero bits remain.
HwFold(c, x, i, n) ==
    IF i = n \/ (c = {} /\ x \cap (i..(n - 1)) = {}) THEN c
    ELSE LET c1 == HwBit(c, x, i)
             c2 == HwBit(c1, x, i + 1)
             c3 == HwBit(c2, x, i + 2)
             c4 == HwBit(c3, x, i + 3)
             c5 == HwBit(c4, x, i + 4)
             c6 == HwBit(c5, x, i + 5)
             c7 == HwBit(c6, x, i + 6)
             c8 == HwBit(c7, x, i + 7)
         IN  HwFold(c8, x, i + 8, n)

mm_crc32_u8(c, x) == HwFold(c, x, 0, 8)

\* mutant: the 16-bit overload calls the 8-bit instruction
mm_crc32_u16_as_u8(c, x) == HwFold(c, x, 0, 8)

mm_crc32_u16(c, x) == HwFold(c, x, 0, 16)

mm_crc32_u32(c, x) == HwFold(c, x, 0, 32)

\* mutant: the 64-bit overload folds only the low half of its operand
mm_crc32_u64_low_half(c, x) == HwFold(c, x, 0, 32)

mm_crc32_u64(c, x) == HwFold(c, x, 0, 64)

\* the overload set crc32 (crc, x), chosen by the width of x in bytes
crc32_word(c, x, nbytes) ==
    CASE nbytes = 1 -> mm_crc32_u8(c, x)
      [] nbytes = 2 -> mm_crc32_u16(c, x)
      [] nbytes = 4 -> mm_crc32_u32(c, x)
      [] nbytes = 8 -> mm_crc32_u64(c, x)

\* the nbytes-byte word at byte index at of bytes (0-based), little-endian
LoadWord(bytes, at, nbytes) ==
    UNION {{8 * k + i : i \in ByteBits(bytes[at + k + 1])} : k \in 0..(nbytes - 1)}

---------------------------------------------------------------------------
(* The reference engine *)

\* crc = (crc >> 8) ^ g_crctable [(crc ^ b) & 0xFF]
ref_step(c, b) == XOR(SHR(c, 8), g_crctable[ByteVal(AND_0xFF(XOR(c, ByteBits(b))))])

\* mutant: the iSCSI finalisation, return ~ crc
ref_result_complemented(c) == (0..31) \ c

\* return crc
ref_result(c) == c

\* the values of a uint32_t
uint32_t == SUBSET (0..31)

\* mutant: while (len -- >= 0)
ref_continue_inclusive(n) == n >= 0

\* while (len --): the test of the loop, on the counter before the decrement
ref_continue(n) == n # 0

RECURSIVE crc32_reference(_, _, _)
\* the value of crc32_reference (buf, n, c) for 0 <= n <= Len(bytes); the
\* register c is a uint32_t (anything else would be handed back as it is)
crc32_reference(bytes, n, c) ==
    IF ~ref_continue(n) \/ c \notin uint32_t THEN ref_result(c)
    ELSE crc32_reference(Tail(bytes), n - 1, ref_step(c, Head(bytes)))

---------------------------------------------------------------------------
(* The hardware engine *)

\* the widest of the 8-, 4-, 2- and 1-byte words that fits in n remaining bytes
hw_chunk(n) == IF n >= 8 THEN 8 ELSE IF n >= 4 THEN 4 ELSE IF n >= 2 THEN 2 ELSE 1

RECURSIVE crc32(_, _, _)
\* the value of crc32 (buf, n, c) for 0 <= n <= Len(bytes)
crc32(bytes, n, c) ==
    IF n = 0 THEN c
    ELSE LET w == hw_chunk(n)
         IN  crc32(SubSeq(bytes, w + 1, Len(bytes)), n - w,
                   crc32_word(c, LoadWord(bytes, 0, w), w))

---------------------------------------------------------------------------
(* vr/hashing.h *)

\* the bits of a natural number below 2^31
U32(v) == {i \in 0..30 : (v \div (2^i)) % 2 = 1}

src_hash_seed == U32(1)

RECURSIVE crc32_constexpr(_, _, _)
\* the build-time evaluation of the table-driven algorithm
crc32_constexpr(str, n, c) ==
    IF n = 0 \/ c \notin uint32_t THEN c
    ELSE crc32_constexpr(Tail(str), n - 1,
             XOR(SHR(c, 8), g_crctable[ByteVal(AND_0xFF(XOR(c, ByteBits(Head(str)))))]))

\* "..."_hash: the compiler passes the literal's characters and their number
_hash(str) == crc32_constexpr(str, Len(str), src_hash_seed)

\* mutant: the run-time hash starts from the conventional seed -1
str_hash_conventional_seed(str, n) == crc32(str, n, 0..31)

\* str_hash (str, len)
str_hash(str, n) == crc32(str, n, src_hash_seed)

\* mutant: the terminator is counted
strlen_with_terminator(s) == CHOOSE i \in 1..Len(s) : s[i] = 0 /\ \A j \in 1..(i - 1) : s[j] # 0

\* std::strlen: the number of bytes before the first 0 of a terminated string
strlen(s) == (CHOOSE i \in 1..Len(s) : s[i] = 0 /\ \A j \in 1..(i - 1) : s[j] # 0) - 1

\* str_hash (str) of a 0-terminated string
str_hash_cstr(s) == str_hash(s, strlen(s))

---------------------------------------------------------------------------
(* Inputs *)

\* the byte at index i of the memory filled with pattern p
PatternByte(p, i) == (p[1] * i + p[2]) % 256

Patterns == {<<0, 0>>, <<0, 1>>, <<37, 97>>, <<251, 255>>}

Memories == {[i \in 1..(MaxOff + MaxLen) |-> PatternByte(p, i - 1)] : p \in Patterns}

\* 0, 1 (the seed of vr/hashing.h) and 0xFFFFFFFF (the conventional seed)
Seeds == {{}, {0}, 0..31}

\* what a read outside the memory may yield
StrayBytes == {0, 255}

NoArgs == [engine |-> "none", off |-> 0, len |-> 0, seed |-> {}]

NoCall == [bytes |-> <<>>, seed |-> {}, value |-> {}, valid |-> FALSE, off |-> 0]

NoChain == [off |-> 0, seed |-> {}, valid |-> FALSE]

\* the bytes of the running call's buffer, from its first byte to the end of memory
Buffer == SubSeq(mem, args.off + 1, Len(mem))

---------------------------------------------------------------------------
(* Engine calls, one loop iteration at a time *)

\* no caller's state: nothing remembered, test_crc32 and main not running
NoCaller ==
    /\ seen = NoCall
    /\ chain = NoChain
    /\ t_len = 0
    /\ t_r = 0
    /\ h_ref = {}
    /\ h_fast = {}
    /\ verdict = "none"
    /\ tested = {}
    /\ mismatches = 0
    /\ ac = 0
    /\ av = <<0>>
    /\ h = {}
    /\ branch = "none"
    /\ out = <<>>
    /\ rc = -1

Init ==
    /\ g_crctable \in {TableIEEE, TableCastagnoli}
    /\ mem \in Memories
    /\ pc = "idle"
    /\ args = NoArgs
    /\ buf = 0
    /\ len = 0
    /\ crc = {}
    /\ reads = <<>>
    /\ chunks = <<>>
    /\ result = {}
    /\ NoCaller

\* a caller enters crc32_reference (mem + off, n, seed)
CallReference ==
    /\ pc \in {"idle", "done"}
    /\ \E off \in 0..MaxOff, n \in (-1)..MaxLen, seed \in Seeds :
          /\ args' = [engine |-> "reference", off |-> off, len |-> n, seed |-> seed]
          /\ buf' = off
          /\ len' = n
          /\ crc' = seed
    /\ pc' = "ref"
    /\ reads' = <<>>
    /\ chunks' = <<>>
    /\ result' = {}
    /\ UNCHANGED <<g_crctable, mem, seqVars, testVars, mainVars>>

\* mutant: the loop clears each byte it has read
RefLoop_destructive ==
    /\ pc = "ref"
    /\ len' = len - 1
    /\ IF ref_continue(len) /\ buf < Len(mem)
         THEN /\ crc' = ref_step(crc, mem[buf + 1])
              /\ mem' = [mem EXCEPT ![buf + 1] = 0]
              /\ pc' = "ref"
              /\ buf' = buf + 1
              /\ reads' = Append(reads, buf - args.off)
         ELSE /\ pc' = "ref_ret"
              /\ UNCHANGED <<mem, buf, crc, reads>>
    /\ UNCHANGED <<g_crctable, args, chunks, result, seqVars, testVars, mainVars>>

\* while (len --) { crc = ... (* buf ++) ... }
RefLoop ==
    /\ pc = "ref"
    /\ len' = len - 1
    /\ IF ref_continue(len)
         THEN /\ \/ /\ buf < Len(mem)
                    /\ crc' = ref_step(crc, mem[buf + 1])
                    /\ pc' = "ref"
                 \/ /\ buf >= Len(mem)
                    /\ buf < Len(mem) + MaxOOB
                    /\ \/ \E b \in StrayBytes :
                             /\ crc' = ref_step(crc, b)
                             /\ pc' = "ref"
                       \/ /\ crc' = crc
                          /\ pc' = "crashed"
              /\ buf' = buf + 1
              /\ reads' = Append(reads, buf - args.off)
         ELSE /\ pc' = "ref_ret"
              /\ UNCHANGED <<buf, crc, reads>>
    /\ UNCHANGED <<g_crctable, mem, args, chunks, result, seqVars, testVars, mainVars>>

\* return crc
RefReturn ==
    /\ pc = "ref_ret"
    /\ result' = ref_result(crc)
    /\ pc' = "done"
    /\ UNCHANGED <<g_crctable, mem, args, buf, len, crc, reads, chunks>>
    /\ UNCHANGED <<seqVars, testVars, mainVars>>

\* a caller enters crc32 (mem + off, n, seed), with a length in its domain
CallHardware ==
    /\ pc \in {"idle", "done"}
    /\ \E off \in 0..MaxOff, n \in 0..MaxLen, seed \in Seeds :
          /\ args' = [engine |-> "hardware", off |-> off, len |-> n, seed |-> seed]
          /\ buf' = off
          /\ len' = n
          /\ crc' = seed
    /\ pc' = "hw"
    /\ reads' = <<>>
    /\ chunks' = <<>>
    /\ result' = {}
    /\ UNCHANGED <<g_crctable, mem, seqVars, testVars, mainVars>>

\* one word of the cascade: crc = crc32 (crc, word at buf); buf += w; len -= w
HwLoop ==
    /\ pc = "hw"
    /\ len > 0
    /\ LET w == hw_chunk(len)
       IN  /\ crc' = crc32_word(crc, LoadWord(mem, buf, w), w)
           /\ buf' = buf + w
           /\ len' = len - w
           /\ reads' = reads \o [k \in 1..w |-> buf - args.off + k - 1]
           /\ chunks' = Append(chunks, w)
    /\ UNCHANGED <<g_crctable, mem, pc, args, result, seqVars, testVars, mainVars>>

HwReturn ==
    /\ pc = "hw"
    /\ len = 0
    /\ result' = crc
    /\ pc' = "done"
    /\ UNCHANGED <<g_crctable, mem, args, buf, len, crc, reads, chunks>>
    /\ UNCHANGED <<seqVars, testVars, mainVars>>

Next == CallReference \/ RefLoop \/ RefReturn \/ CallHardware \/ HwLoop \/ HwReturn

Spec == Init /\ [][Next]_vars

---------------------------------------------------------------------------
(* A caller making a sequence of crc32_reference calls on memory it owns *)

\* the memory size of such a caller
SeqMemLen == 3

SeqPeriods == {<<1, 0>>, <<97, 97>>}

\* memories that repeat with period 2: equal contents at different addresses
SeqMemories == {[i \in 1..SeqMemLen |-> p[1 + ((i - 1) % 2)]] : p \in SeqPeriods}

SeqSeeds == {{}, {0}}

\* the bytes the running call was given
CallBytes == SubSeq(mem, args.off + 1, args.off + args.len)

SeqInit ==
    /\ g_crctable \in {TableIEEE, TableCastagnoli}
    /\ mem \in SeqMemories
    /\ pc = "idle"
    /\ args = NoArgs
    /\ buf = 0
    /\ len = 0
    /\ crc = {}
    /\ reads = <<>>
    /\ chunks = <<>>
    /\ result = {}
    /\ NoCaller

\* crc32_reference (mem + off, n, seed) is entered; off, n and seed as the caller chose
Enter(off, n, seed) ==
    /\ args' = [engine |-> "reference", off |-> off, len |-> n, seed |-> seed]
    /\ buf' = off
    /\ len' = n
    /\ crc' = seed
    /\ pc' = "ref"
    /\ reads' = <<>>
    /\ chunks' = <<>>
    /\ result' = {}

\* the caller hashes some bytes of its memory with a seed of its choice
SeqCall ==
    /\ pc \in {"idle", "done"}
    /\ \E off \in 0..Len(mem), seed \in SeqSeeds :
          /\ \E n \in 0..(Len(mem) - off) : Enter(off, n, seed)
          /\ chain' = [off |-> off, seed |-> seed, valid |-> TRUE]
    /\ UNCHANGED <<g_crctable, mem, seen, testVars, mainVars>>

\* the caller hashes the bytes that follow, seeded with the value just returned
SeqContinue ==
    /\ pc = "done"
    /\ chain.valid
    /\ \E n \in 0..(Len(mem) - (args.off + args.len)) :
          Enter(args.off + args.len, n, result)
    /\ UNCHANGED <<g_crctable, mem, seqVars, testVars, mainVars>>

\* return crc; the caller may keep a call it seeded itself in mind
SeqReturn ==
    /\ pc = "ref_ret"
    /\ result' = ref_result(crc)
    /\ pc' = "done"
    /\ \/ seen' = seen
       \/ /\ args.seed \in SeqSeeds
          /\ seen' = [bytes |-> CallBytes, seed |-> args.seed,
                      value |-> result', valid |-> TRUE, off |-> args.off]
    /\ UNCHANGED <<g_crctable, mem, args, buf, len, crc, reads, chunks>>
    /\ UNCHANGED <<chain, testVars, mainVars>>

\* between two calls the caller fills its memory anew
CallerWrites ==
    /\ pc = "done"
    /\ mem' \in SeqMemories \ {mem}
    /\ pc' = "idle"
    /\ args' = NoArgs
    /\ result' = {}
    /\ chain' = NoChain
    /\ UNCHANGED <<g_crctable, buf, len, crc, reads, chunks, seen, testVars, mainVars>>

SeqNext == SeqCall \/ SeqContinue \/ RefLoop \/ SeqReturn \/ CallerWrites

SpecSeq == SeqInit /\ [][SeqNext]_vars

---------------------------------------------------------------------------
(* test.cpp: test_crc32 *)

\* len_max, 109 in test.cpp, scaled down
len_max == 3
\* len_repeats, 5000 in test.cpp, scaled down
len_repeats == 2

\* the values rng (g) yields in the model, two of the 256
TestBytes == {0, 1}

\* mutant: for (len = 0; len <= len_max; ++ len)
test_len_in_range_inclusive(l) == l <= len_max

\* for (len = 0; len < len_max; ++ len): the test of the outer loop
test_len_in_range(l) == l < len_max

\* where test_crc32 returns to: main's "test" case, or a caller of its own
TestReturnsTo == IF branch = "test" THEN "m_test_ret" ELSE "t_done"

TestInit ==
    /\ g_crctable \in {TableIEEE, TableCastagnoli}
    /\ mem = <<>>
    /\ pc = "t_call"
    /\ args = NoArgs
    /\ buf = 0
    /\ len = 0
    /\ crc = {}
    /\ reads = <<>>
    /\ chunks = <<>>
    /\ result = {}
    /\ NoCaller

\* buf { new uint8_t [len_max] }: uninitialised bytes; len = 0
TestEnter ==
    /\ pc = "t_call"
    /\ mem' \in [1..len_max -> TestBytes]
    /\ t_len' = 0
    /\ t_r' = 0
    /\ tested' = {}
    /\ mismatches' = 0
    /\ verdict' = "none"
    /\ pc' = "t_outer"
    /\ UNCHANGED <<g_crctable, args, buf, len, crc, reads, chunks, result>>
    /\ UNCHANGED <<h_ref, h_fast, seqVars, mainVars>>

\* for (len ...; len < len_max; ...) ... return true
TestOuter ==
    /\ pc = "t_outer"
    /\ IF test_len_in_range(t_len)
         THEN /\ t_r' = 0
              /\ pc' = "t_inner"
              /\ UNCHANGED verdict
         ELSE /\ verdict' = "true"
              /\ pc' = TestReturnsTo
              /\ UNCHANGED t_r
    /\ UNCHANGED <<g_crctable, mem, args, buf, len, crc, reads, chunks, result>>
    /\ UNCHANGED <<t_len, h_ref, h_fast, tested, mismatches, seqVars, mainVars>>

\* for (r ...; r < len_repeats; ...) { for (i ...) buf [i] = rng (g); ... } ++ len
TestInner ==
    /\ pc = "t_inner"
    /\ IF t_r < len_repeats
         THEN /\ \E bytes \in [1..t_len -> TestBytes] :
                    mem' = [i \in 1..Len(mem) |-> IF i <= t_len THEN bytes[i] ELSE mem[i]]
              /\ pc' = "t_ref"
              /\ UNCHANGED t_len
         ELSE /\ t_len' = t_len + 1
              /\ pc' = "t_outer"
              /\ UNCHANGED mem
    /\ UNCHANGED <<g_crctable, args, buf, len, crc, reads, chunks, result>>
    /\ UNCHANGED <<t_r, h_ref, h_fast, verdict, tested, mismatches, seqVars, mainVars>>

\* h_ref = crc32_reference (buf.get (), len, src_hash_seed ())
TestHashRef ==
    /\ pc = "t_ref"
    /\ h_ref' = crc32_reference(mem, t_len, src_hash_seed)
    /\ pc' = "t_fast"
    /\ UNCHANGED <<g_crctable, mem, args, buf, len, crc, reads, chunks, result>>
    /\ UNCHANGED <<t_len, t_r, h_fast, verdict, tested, mismatches, seqVars, mainVars>>

\* h_fast = crc32 (buf.get (), len, src_hash_seed ())
TestHashFast ==
    /\ pc = "t_fast"
    /\ h_fast' = crc32(mem, t_len, src_hash_seed)
    /\ pc' = "t_cmp"
    /\ UNCHANGED <<g_crctable, mem, args, buf, len, crc, reads, chunks, result>>
    /\ UNCHANGED <<t_len, t_r, h_ref, verdict, tested, mismatches, seqVars, mainVars>>

\* if (h_ref != h_fast) return false; ++ r
TestCompare ==
    /\ pc = "t_cmp"
    /\ tested' = tested \cup {<<t_len, t_r>>}
    /\ mismatches' = mismatches + (IF h_ref = h_fast THEN 0 ELSE 1)
    /\ IF h_ref # h_fast
         THEN /\ verdict' = "false"
              /\ pc' = TestReturnsTo
              /\ UNCHANGED t_r
         ELSE /\ t_r' = t_r + 1
              /\ pc' = "t_inner"
              /\ UNCHANGED verdict
    /\ UNCHANGED <<g_crctable, mem, args, buf, len, crc, reads, chunks, result>>
    /\ UNCHANGED <<t_len, h_ref, h_fast, seqVars, mainVars>>

TestNext ==
    TestEnter \/ TestOuter \/ TestInner \/ TestHashRef \/ TestHashFast \/ TestCompare

SpecTest == TestInit /\ [][TestNext]_vars

---------------------------------------------------------------------------
(* main.cpp: main *)

\* the characters of the four case labels
Literals ==
    [abcd |-> <<97, 98, 99, 100>>,
     fgh |-> <<102, 103, 104>>,
     abracadabra |-> <<97, 98, 114, 97, 99, 97, 100, 97, 98, 114, 97>>,
     test |-> <<116, 101, 115, 116>>]

Labels == DOMAIN Literals

\* what av [1] may hold: the four literals, "", "a", "abc", "abce", "test1", "abracadabr"
Strings ==
    {Literals[l] : l \in Labels} \cup
    {<<>>, <<97>>, <<97, 98, 99>>, <<97, 98, 99, 101>>, <<116, 101, 115, 116, 49>>,
     <<97, 98, 114, 97, 99, 97, 100, 97, 98, 114>>}

\* a string as the 0-terminated bytes argv holds
CStr(str) == Append(str, 0)

MainInit ==
    /\ g_crctable \in {TableIEEE, TableCastagnoli}
    /\ mem = <<>>
    /\ pc = "m_start"
    /\ args = NoArgs
    /\ buf = 0
    /\ len = 0
    /\ crc = {}
    /\ reads = <<>>
    /\ chunks = <<>>
    /\ result = {}
    /\ seen = NoCall
    /\ chain = NoChain
    /\ t_len = 0
    /\ t_r = 0
    /\ h_ref = {}
    /\ h_fast = {}
    /\ verdict = "none"
    /\ tested = {}
    /\ mismatches = 0
    /\ ac \in 1..3
    /\ av \in IF ac = 1 THEN {<<0>>} ELSE {CStr(str) : str \in Strings}
    /\ h = {}
    /\ branch = "none"
    /\ out = <<>>
    /\ rc = -1

\* if (ac != 2) { std::cerr << "usage: ..."; return 1; }
MainUsage ==
    /\ pc = "m_start"
    /\ ac # 2
    /\ out' = Append(out, "usage: static_hash (<string>|'test')")
    /\ rc' = 1
    /\ pc' = "m_exit"
    /\ UNCHANGED <<g_crctable, mem, callVars_but_pc, seqVars, testVars, ac, av, h, branch>>

\* h = str_hash (av [1])
MainHash ==
    /\ pc = "m_start"
    /\ ac = 2
    /\ h' = str_hash_cstr(av)
    /\ pc' = "m_switch"
    /\ UNCHANGED <<g_crctable, mem, callVars_but_pc, seqVars, testVars, ac, av, branch, out, rc>>

\* the case label equal to v, "none" when there is none
CaseOf(v) ==
    IF v = _hash(Literals.abcd) THEN "abcd"
    ELSE IF v = _hash(Literals.fgh) THEN "fgh"
    ELSE IF v = _hash(Literals.abracadabra) THEN "abracadabra"
    ELSE IF v = _hash(Literals.test) THEN "test"
    ELSE "none"

\* switch (h) { case "abcd"_hash: ... case "test"_hash: ... }
MainSwitch ==
    /\ pc = "m_switch"
    /\ branch' = CaseOf(h)
    /\ IF branch' = "test"
         THEN /\ out' = Append(out, "running test_crc32() ...")
              /\ pc' = "t_call"
         ELSE /\ out' = IF branch' = "none" THEN out ELSE Append(out, branch')
              /\ pc' = "m_print"
    /\ UNCHANGED <<g_crctable, mem, callVars_but_pc, seqVars, testVars, ac, av, h, rc>>

\* std::cout << ", success: " << test_crc32 () << std::endl; break
MainTestReturn ==
    /\ pc = "m_test_ret"
    /\ out' = Append(out, IF verdict = "true" THEN ", success: 1" ELSE ", success: 0")
    /\ pc' = "m_print"
    /\ UNCHANGED <<g_crctable, mem, callVars_but_pc, seqVars, testVars, ac, av, h, branch, rc>>

\* std::cout << '\'' << av [1] << "' hashed to 0x" << std::hex << h; return 0
MainPrint ==
    /\ pc = "m_print"
    /\ out' = Append(out, "hashed to")
    /\ rc' = 0
    /\ pc' = "m_exit"
    /\ UNCHANGED <<g_crctable, mem, callVars_but_pc, seqVars, testVars, ac, av, h, branch>>

MainNext ==
    \/ MainUsage \/ MainHash \/ MainSwitch \/ MainTestReturn \/ MainPrint
    \/ TestEnter \/ TestOuter \/ TestInner \/ TestHashRef \/ TestHashFast \/ TestCompare

SpecMain == MainInit /\ [][MainNext]_vars

---------------------------------------------------------------------------
(* What the claims speak of *)

\* the running (or finished) call is a call of engine e with a length in the domain
InDomain(e) == args.engine = e /\ args.len >= 0

Finished(e) == InDomain(e) /\ pc = "done"

\* rs lists the indices 0, 1, ..., Len(rs) - 1, each once and in increasing order
InOrder(rs) == rs = [k \in 1..Len(rs) |-> k - 1]

\* the step the specification gives for the reference engine
SpecStep(c, b) == XOR(SHR(c, 8), g_crctable[ByteVal(XOR(c, ByteBits(b)) \cap (0..7))])

RECURSIVE SpecRegister(_, _, _)
\* the register after the first k bytes, by the specification's step
SpecRegister(bytes, k, c) ==
    IF k = 0 \/ c \notin uint32_t THEN c
    ELSE SpecRegister(Tail(bytes), k - 1, SpecStep(c, Head(bytes)))

\* the widths of a cascade: 8s first, then at most one 4, one 2 and one 1
IsCascade(ws) ==
    /\ \A k \in 1..Len(ws) : ws[k] \in {8, 4, 2, 1}
    /\ \A k \in 1..(Len(ws) - 1) : ws[k] >= ws[k + 1] /\ (ws[k] < 8 => ws[k] > ws[k + 1])

---------------------------------------------------------------------------
(* C1: engine equivalence *)

---------------------------------------------------------------------------
(* C3: the empty input *)

\* C3: a call of crc32_reference with length 0 returns its seed, whatever the
\* seed (0 included), and reads no byte; the empty literal's hash and str_hash
\* of an empty string are the seed 1.
C3_EmptyInputReturnsSeed ==
    /\ (Finished("reference") /\ args.len = 0) => (result = args.seed /\ reads = <<>>)
    /\ _hash(<<>>) = U32(1)
    /\ str_hash_cstr(<<0>>) = U32(1)

C3_Witness ==
    /\ Finished("reference")
    /\ args.len = 0
    /\ args.seed = {}
    /\ args.off = 1
    /\ result = {}

---------------------------------------------------------------------------
(* C4: a negative length *)

\* C4: a call of crc32_reference with a negative length reads no byte and
\* returns no checksum: it ends in an error.
C4_NegativeLengthFailsFast ==
    (args.engine = "reference" /\ args.len < 0) =>
        (reads = <<>> /\ pc \in {"ref", "failed"})

---------------------------------------------------------------------------
(* C8: the reference engine's loop *)

\* C8: for L >= 0 crc32_reference reads B[0], ..., B[L-1] once each in
\* increasing order and nothing at or beyond L, makes exactly L iterations,
\* keeps the register within 32 bits and equal, after k bytes, to k applications
\* of crc = (crc >> 8) XOR table[(crc XOR b) AND 0xFF], and returns the final
\* register as it is.
C8_ReferenceLoop ==
    InDomain("reference") =>
        /\ InOrder(reads)
        /\ Len(reads) <= args.len
        /\ crc \in uint32_t
        /\ pc \in {"ref", "ref_ret", "done"}
        /\ crc = SpecRegister(Buffer, Len(reads), args.seed)
        /\ pc = "ref" => len = args.len - Len(reads)
        /\ pc \in {"ref_ret", "done"} => Len(reads) = args.len
        /\ pc = "done" => result = SpecRegister(Buffer, args.len, args.seed)

C8_Witness ==
    /\ Finished("reference")
    /\ args.len = 5
    /\ args.off = 1
    /\ args.seed = 0..31
    /\ reads = <<0, 1, 2, 3, 4>>
    /\ result # args.seed

---------------------------------------------------------------------------
(* C9: the hardware engine's cascade *)

---------------------------------------------------------------------------
(* C7: purity and determinism of the reference engine *)

\* C7: while crc32_reference runs, the table and every byte of the caller's
\* memory stay as they are, the table is the one the build started with, and
\* a call returns what a remembered earlier call with the same bytes, length
\* and seed returned, wherever in memory either buffer was.
C7_PureAndDeterministic ==
    /\ [][(pc \in {"ref", "ref_ret"}) => (g_crctable' = g_crctable /\ mem' = mem)]_vars
    /\ [][g_crctable' = g_crctable]_vars
    /\ [](DOMAIN g_crctable = 0..255)
    /\ []((pc = "done" /\ seen.valid /\ seen.bytes = CallBytes /\ seen.seed = args.seed)
            => result = seen.value)

\* the same two bytes were hashed from two different addresses
C7_Witness ==
    /\ pc = "done"
    /\ seen.valid
    /\ seen.bytes = CallBytes
    /\ seen.seed = args.seed
    /\ seen.off # args.off
    /\ args.len = 2
    /\ result = seen.value
    /\ result # args.seed

---------------------------------------------------------------------------
(* C10: hashing in consecutive pieces *)

\* C10: a buffer hashed in consecutive pieces, each piece seeded with the value
\* the piece before returned, gives what one call over the whole buffer gives;
\* and for every split point k of a finished call (B, L, S),
\* crc32_reference(B, L, S) = crc32_reference(B[k..L-1], L - k, crc32_reference(B[0..k-1], k, S)).
C10_Composition ==
    (pc = "done" /\ chain.valid) =>
        /\ result = crc32_reference(SubSeq(mem, chain.off + 1, Len(mem)),
                                    args.off + args.len - chain.off, chain.seed)
        /\ \A k \in 0..args.len :
              result = crc32_reference(SubSeq(Buffer, k + 1, Len(Buffer)), args.len - k,
                                       crc32_reference(Buffer, k, args.seed))

\* three non-empty pieces were hashed one after the other
C10_Witness ==
    /\ pc = "done"
    /\ chain.valid
    /\ chain.off = 0
    /\ args.off = 2
    /\ args.len = 1
    /\ args.seed \notin SeqSeeds
    /\ result = crc32_reference(mem, 3, chain.seed)
    /\ result # chain.seed

---------------------------------------------------------------------------
(* C6: the verifier's verdict *)

\* the lengths of the trials compared so far
TestedLengths == {t[1] : t \in tested}

\* trial t comes no later than trial u
NoLater(t, u) == t[1] < u[1] \/ (t[1] = u[1] /\ t[2] <= u[2])

\* C6 as stated: a run that returned true compared the engines for every
\* length L with 0 <= L <= len_max.
C6_TestsEveryLengthUpToLenMax ==
    verdict = "true" => TestedLengths = 0..len_max

\* C6 amended: test_crc32 compares crc32_reference and crc32 on the identical
\* buffer with the identical seed for every length L with 0 <= L < len_max
\* (L = len_max itself is not tested) and every one of the len_repeats repeats
\* of each length; it returns true if and only if all of these trials agreed,
\* and it returns false at the first disagreeing trial without running any
\* later trial.
C6_Verdict ==
    /\ [](pc = "t_cmp" =>
            /\ h_ref = crc32_reference(mem, t_len, U32(1))
            /\ h_fast = crc32(mem, t_len, U32(1)))
    /\ [](verdict = "true" =>
            /\ tested = (0..(len_max - 1)) \X (0..(len_repeats - 1))
            /\ mismatches = 0)
    /\ [](verdict = "false" =>
            /\ mismatches = 1
            /\ h_ref # h_fast
            /\ <<t_len, t_r>> \in tested
            /\ \A t \in tested : NoLater(t, <<t_len, t_r>>))
    /\ [](verdict = "none" => mismatches = 0)
    /\ [][verdict = "none" /\ tested \subseteq tested']_vars

\* the run failed at the last trial, all earlier trials having agreed
C6_Witness ==
    /\ pc = "t_done"
    /\ verdict = "false"
    /\ t_len = len_max - 1
    /\ t_r = len_repeats - 1
    /\ Cardinality(tested) = len_max * len_repeats

---------------------------------------------------------------------------
(* C2, C5: build-time constants and the run-time hash in main *)

\* the characters main was given: av [1] without its terminator
ArgChars == SubSeq(av, 1, Len(av) - 1)

\* main has computed h = str_hash (av [1])
Hashed == ac = 2 /\ pc # "m_start"

\* main is past its switch
Switched == Hashed /\ pc # "m_switch"

LabelsDistinct ==
    \A l1, l2 \in Labels : _hash(Literals[l1]) = _hash(Literals[l2]) => l1 = l2

============================================================================
